---------------------------- MODULE Spec2Model ----------------------------
(***************************************************************************)
(* The recognition loop of clients/speech/listener.py: the orchestrator    *)
(* RecognizerLoop, the shared RecognizerLoopState objects, and the         *)
(* AudioProducer / AudioConsumer thread pairs connected by a FIFO queue.   *)
(*                                                                         *)
(* Every _load_config() builds a new RecognizerLoopState, a new            *)
(* ResponsiveRecognizer, a new microphone and new engines; the model calls *)
(* one such build a generation.  A producer/consumer pair keeps the        *)
(* objects of the generation it was started in.                            *)
(***************************************************************************)
EXTENDS Integers, Sequences, FiniteSets, TLC

(* ------------------------------ bounds -------------------------------- *)
MaxPairs == 1    \* pairs started in the pipeline specification (Spec)
MaxStarts == 2   \* pairs started in the lifecycle specifications
MaxClips == 2    \* queue.put() calls made by the producers, all told
MaxMute  == 2    \* mute() calls outstanding
MaxCalls == 2    \* mute() calls made by each of the concurrent callers

(* --------------------------- configuration ---------------------------- *)
\* the module-level default configuration; it has no "hotwords" key, which
\* the model writes as the empty mapping
conf0 ==
    [wake_word |-> "hey mycroft", stand_up_word |-> "wake up", hotwords |-> <<>>]

\* a configuration with another wake word and a hot-word table
conf1 ==
    [wake_word |-> "hey jarbas", stand_up_word |-> "wake up",
     hotwords |-> ("hey mycroft" :> TRUE) @@ ("wake up" :> TRUE)
                  @@ ("thank you" :> TRUE) @@ ("stop" :> FALSE)]

Configs == {conf0, conf1}

\* words an inbound hotword event may carry
HotWords == {"thank you"}

\* HotWordFactory.create_hotword(word, ...): the engine answers for `word`
create_hotword(word) == [key_phrase |-> word]

\* the entry create_wake_word_recognizer adds to an existing hot-word table
\* that lacks the wake word: {'module': 'pocketsphinx'} carries no "active"
\* field, which create_hot_word_engines reads as inactive
wake_word_hotwords(config) ==
    IF config.hotwords # <<>> /\ config.wake_word \notin DOMAIN config.hotwords
    THEN (config.wake_word :> FALSE) @@ config.hotwords
    ELSE config.hotwords

create_wake_word_recognizer(config) == create_hotword(config.wake_word)

create_wakeup_recognizer(config) == create_hotword(config.stand_up_word)

\* the words of the auxiliary hot-word registry
create_hot_word_engines(config, wakeup, wakeword) ==
    LET hot_words == wake_word_hotwords(config)
    IN  {word \in DOMAIN hot_words :
            ~ (\/ word = wakeup.key_phrase
               \/ word = wakeword.key_phrase
               \/ ~ hot_words[word])}

(* ------------------------------- clips -------------------------------- *)
\* what the microphone capability can capture: 15999 bytes at 16 kHz and two
\* bytes per sample last just under half a second, 16000 bytes exactly half
AudioClips ==
    {[frames |-> 15999, sample_rate |-> 16000, sample_width |-> 2],
     [frames |-> 16000, sample_rate |-> 16000, sample_width |-> 2]}

\* listen() aborted by ResponsiveRecognizer.stop() hands back None
None == [frames |-> -1, sample_rate |-> 0, sample_width |-> 0]

Item(n, audio) == [id |-> n] @@ audio

\* _audio_length as the exact quotient numerator / denominator
_audio_length(audio) == <<audio.frames, audio.sample_rate * audio.sample_width>>

\* 0.5 seconds, as a quotient
MIN_AUDIO_SIZE == <<1, 2>>

\* a < b for quotients with positive denominators
LessThan(a, b) == a[1] * b[2] < b[1] * a[2]

(* -------------------------------- STT --------------------------------- *)
\* raw results of stt.execute: text as a sequence of characters
STTTexts == { <<"H", "i">>, <<" ", "h", "i", " ">>, <<" ">> }

\* what stt.execute can do
STTOutcomes ==
    [kind : {"ok"}, text : STTTexts]
    \cup [kind : {"RequestError", "ConnectionError", "HTTPError401",
                  "HTTPError", "RequestException", "Exception"},
          text : {<<>>}]

\* str.lower over the characters of STTTexts
lower(s) == [i \in 1..Len(s) |-> IF s[i] = "H" THEN "h" ELSE s[i]]

RECURSIVE lstrip(_)
lstrip(s) == IF s # <<>> /\ Head(s) = " " THEN lstrip(Tail(s)) ELSE s

RECURSIVE rstrip(_)
rstrip(s) ==
    IF s # <<>> /\ s[Len(s)] = " " THEN rstrip(SubSeq(s, 1, Len(s) - 1)) ELSE s

strip(s) == rstrip(lstrip(s))

PairMyDevice ==
    <<"p", "a", "i", "r", " ", "m", "y", " ", "d", "e", "v", "i", "c", "e">>

Str(t) == [none |-> FALSE, text |-> t]
NoneText == [none |-> TRUE, text |-> <<>>]

\* Python truthiness of what transcribe returns
Truthy(v) == ~ v.none /\ v.text # <<>>

Ev(name, payload) == [name |-> name, payload |-> payload]

EvSpeak == Ev("speak", [utterance |-> "not connected to the internet"])
EvNoInternet == Ev("recognizer_loop:no_internet", <<>>)
EvUnknown == Ev("recognizer_loop:speech.recognition.unknown", <<>>)
EvAwoken == Ev("recognizer_loop:awoken", <<>>)
EvIOError == Ev("recognizer_loop:ioerror", <<>>)
EvWakeword(word) == Ev("recognizer_loop:wakeword", [utterance |-> word])
EvUtterance(text, lang) ==
    Ev("recognizer_loop:utterance", [utterances |-> <<text>>, lang |-> lang])

\* the language the STT engine reports (self.stt.lang)
STTLang == "stt.lang"

\* transcribe as it would be if the 401 branch did not return
transcribe_401_falls_through(outcome) ==
    CASE outcome.kind = "ok" ->
            [ret |-> Str(strip(lower(outcome.text))), events |-> <<>>]
      [] outcome.kind = "ConnectionError" ->
            [ret |-> NoneText, events |-> <<EvNoInternet, EvSpeak>>]
      [] outcome.kind = "Exception" ->
            [ret |-> NoneText, events |-> <<EvUnknown>>]
      [] OTHER ->
            [ret |-> NoneText, events |-> <<EvSpeak>>]

\* transcribe as it would be if the ConnectionError branch returned
transcribe_connection_returns(outcome) ==
    CASE outcome.kind = "ok" ->
            [ret |-> Str(strip(lower(outcome.text))), events |-> <<>>]
      [] outcome.kind = "ConnectionError" ->
            [ret |-> NoneText, events |-> <<EvNoInternet>>]
      [] outcome.kind = "HTTPError401" ->
            [ret |-> Str(PairMyDevice), events |-> <<>>]
      [] outcome.kind = "Exception" ->
            [ret |-> NoneText, events |-> <<EvUnknown>>]
      [] OTHER ->
            [ret |-> NoneText, events |-> <<EvSpeak>>]

\* transcribe as it would be if RequestError were handled as ConnectionError
transcribe_request_as_connection(outcome) ==
    CASE outcome.kind = "ok" ->
            [ret |-> Str(strip(lower(outcome.text))), events |-> <<>>]
      [] outcome.kind \in {"RequestError", "ConnectionError"} ->
            [ret |-> NoneText, events |-> <<EvNoInternet, EvSpeak>>]
      [] outcome.kind = "HTTPError401" ->
            [ret |-> Str(PairMyDevice), events |-> <<>>]
      [] outcome.kind = "Exception" ->
            [ret |-> NoneText, events |-> <<EvUnknown>>]
      [] OTHER ->
            [ret |-> NoneText, events |-> <<EvSpeak>>]

\* AudioConsumer.transcribe: the value returned and the events emitted
transcribe(outcome) ==
    CASE outcome.kind = "ok" ->
            [ret |-> Str(strip(lower(outcome.text))), events |-> <<>>]
      [] outcome.kind = "RequestError" ->
            [ret |-> NoneText, events |-> <<EvSpeak>>]
      [] outcome.kind = "ConnectionError" ->
            [ret |-> NoneText, events |-> <<EvNoInternet, EvSpeak>>]
      [] outcome.kind = "HTTPError401" ->
            [ret |-> Str(PairMyDevice), events |-> <<>>]
      [] outcome.kind = "HTTPError" ->
            [ret |-> NoneText, events |-> <<EvSpeak>>]
      [] outcome.kind = "RequestException" ->
            [ret |-> NoneText, events |-> <<EvSpeak>>]
      [] OTHER ->
            [ret |-> NoneText, events |-> <<EvUnknown>>]

(* ------------------------------- state -------------------------------- *)
VARIABLES
    conf,                 \* the module-level configuration dictionary
    wakeword_recognizer,  \* self.wakeword_recognizer
    wakeup_recognizer,    \* self.wakeup_recognizer
    hot_word_engines,     \* the words of self.hot_word_engines
    mute_calls,           \* self.mute_calls
    muted,                \* self.microphone is muted
    state,                \* the RecognizerLoopState of each generation
    stop_signaled,        \* ResponsiveRecognizer.stop() was called, per generation
    pairs,                \* the producer/consumer pairs started so far
    orch,                 \* where the orchestrator's calling thread is
    emit,                 \* what the last step emitted, and which pair did
    stopped,              \* stop() has returned and start_async() not yet called
    counted,              \* the mute() and unmute() calls made since the
                          \* microphone was last unmuted at depth 0
    callers,              \* the threads that call mute() and unmute() step
                          \* by step: where each is, and the value of
                          \* mute_calls it has read
    runner                \* where the thread that calls run() is

vars == <<conf, wakeword_recognizer, wakeup_recognizer, hot_word_engines,
          mute_calls, muted, state, stop_signaled, pairs, orch, emit,
          stopped, counted, callers, runner>>

config_vars == <<conf, wakeword_recognizer, wakeup_recognizer, hot_word_engines>>
mute_vars == <<mute_calls, muted, counted, callers>>
ghost_vars == <<stopped>>

\* the threads, other than the orchestrator's, that call mute() and unmute()
Callers == {1, 2}

\* a caller outside mute() and unmute(), holding no mute
Idle == [pc |-> "idle", tmp |-> 0, made |-> 0]

\* nothing emitted
NoEmit == [by |-> 0, events |-> <<>>, audio |-> Item(0, None), res |-> "-"]

\* self.state is the state of the newest generation
cur == Len(state)

\* RecognizerLoopState.__init__
RecognizerLoopState == [running |-> FALSE, sleeping |-> FALSE]

Pairs == 1..Len(pairs)

\* a _load_config whose new microphone is never muted
_load_config_unmuted(config, calls) ==
    LET wakeword == create_wake_word_recognizer(config)
        wakeup == create_wakeup_recognizer(config)
    IN  [wakeword_recognizer |-> wakeword,
         wakeup_recognizer |-> wakeup,
         hot_word_engines |-> create_hot_word_engines(config, wakeup, wakeword),
         muted |-> FALSE,
         config |-> [config EXCEPT !.hotwords = wake_word_hotwords(config)]]

\* RecognizerLoop._load_config(config) with self.mute_calls = calls: what it
\* builds, and the configuration dictionary as it leaves it
_load_config(config, calls) ==
    LET wakeword == create_wake_word_recognizer(config)
        wakeup == create_wakeup_recognizer(config)
    IN  [wakeword_recognizer |-> wakeword,
         wakeup_recognizer |-> wakeup,
         hot_word_engines |-> create_hot_word_engines(config, wakeup, wakeword),
         muted |-> calls > 0,
         config |-> [config EXCEPT !.hotwords = wake_word_hotwords(config)]]

NoCalls == [mutes |-> 0, unmutes |-> 0]

\* RecognizerLoop.__init__(config)
Constructed(config) ==
    /\ conf = conf0
    /\ mute_calls = 0
    /\ LET loaded == _load_config(config, 0)
       IN  /\ wakeword_recognizer = loaded.wakeword_recognizer
           /\ wakeup_recognizer = loaded.wakeup_recognizer
           /\ hot_word_engines = loaded.hot_word_engines
           /\ muted = loaded.muted
    /\ state = <<RecognizerLoopState>>
    /\ stop_signaled = <<FALSE>>
    /\ pairs = <<>>
    /\ orch = "idle"
    /\ emit = NoEmit
    /\ stopped = FALSE
    /\ counted = NoCalls
    /\ callers = [t \in Callers |-> Idle]
    /\ runner = "none"

\* RecognizerLoop(): config is None, so the module-level conf is loaded
Init == Constructed(conf0)

\* RecognizerLoop(config) with any configuration
InitConfig == \E config \in Configs : Constructed(config)

(* ----------------------------- the queue ------------------------------ *)
\* Queue.put
put(queue, item) == Append(queue, item)

\* a get that takes the newest item
get_newest(queue) ==
    [item |-> queue[Len(queue)], queue |-> SubSeq(queue, 1, Len(queue) - 1)]

\* Queue.get on a queue that holds an item: the item and what is left
get(queue) == [item |-> Head(queue), queue |-> Tail(queue)]

(* ------------------------ producer and consumer ----------------------- *)
\* the payload of a hotword event without a "hotword" field
NoHotword == [has_word |-> FALSE, word |-> ""]

\* a consumer that starts from the default wake phrase
NewPair_default_word(g, wakeword, dup) ==
    [gen |-> g, prod |-> "loop", cons |-> "loop", queue |-> <<>>,
     pushed |-> 0, taken |-> <<>>, audio |-> Item(0, None),
     word |-> conf0.wake_word, key_phrase |-> wakeword.key_phrase,
     dup |-> dup, hw |-> FALSE, heard |-> NoHotword]

\* AudioProducer.__init__ and AudioConsumer.__init__ on a new Queue(), with
\* the state and recognizer of generation g.  dup records that the pair was
\* started while state.running was already true, hw that a hotword event
\* has reached the consumer, heard what the last such event carried
NewPair(g, wakeword, dup) ==
    [gen |-> g, prod |-> "loop", cons |-> "loop", queue |-> <<>>,
     pushed |-> 0, taken |-> <<>>, audio |-> Item(0, None),
     word |-> wakeword.key_phrase, key_phrase |-> wakeword.key_phrase,
     dup |-> dup, hw |-> FALSE, heard |-> NoHotword]

\* thread p emitted `events` while handling `audio`; res tells how the clip
\* was handled
Emitted(p, events, audio, res) ==
    [by |-> p, events |-> events, audio |-> audio, res |-> res]

\* the queue.put() calls made so far by the producers 1..n
RECURSIVE Puts(_)
Puts(n) == IF n = 0 THEN 0 ELSE pairs[n].pushed + Puts(n - 1)

\* AudioProducer.run: the test of `while self.state.running`
ProducerRun(p) ==
    /\ pairs[p].prod = "loop"
    /\ pairs' = [pairs EXCEPT ![p].prod =
                    IF state[pairs[p].gen].running THEN "listen" ELSE "done"]
    /\ emit' = NoEmit
    /\ UNCHANGED <<runner, config_vars, mute_vars, ghost_vars, state, stop_signaled, orch>>

\* recognizer.listen returns `audio`, which goes onto the queue
Listened(p, audio) ==
    /\ pairs[p].prod = "listen"
    /\ pairs' = [pairs EXCEPT
                    ![p].queue = put(@, Item(pairs[p].pushed + 1, audio)),
                    ![p].pushed = @ + 1,
                    ![p].prod = "loop"]
    /\ emit' = NoEmit
    /\ UNCHANGED <<runner, config_vars, mute_vars, ghost_vars, state, stop_signaled, orch>>

\* recognizer.listen returns a clip
ProducerListen(p, audio) ==
    /\ Puts(Len(pairs)) < MaxClips
    /\ Listened(p, audio)

\* a recognizer whose stop() does not reach a listen() in progress:
\* listen() never returns None
ProducerListenStopped_blocked(p) ==
    /\ FALSE
    /\ Listened(p, None)

\* recognizer.listen, told to stop, returns None.  The bound on the puts
\* holds this back only while running is true: once running is false the
\* producer ends at its next loop test
ProducerListenStopped(p) ==
    /\ stop_signaled[pairs[p].gen]
    /\ Puts(Len(pairs)) < MaxClips \/ ~ state[pairs[p].gen].running
    /\ Listened(p, None)

\* an IOError that ends the producer thread
ProducerIOError_fatal(p) ==
    /\ pairs[p].prod = "listen"
    /\ pairs' = [pairs EXCEPT ![p].prod = "done"]
    /\ emit' = Emitted(p, <<EvIOError>>, Item(0, None), "IOError")
    /\ UNCHANGED <<runner, config_vars, mute_vars, ghost_vars, state, stop_signaled, orch>>

\* recognizer.listen raises IOError
ProducerIOError(p) ==
    /\ pairs[p].prod = "listen"
    /\ pairs' = [pairs EXCEPT ![p].prod = "loop"]
    /\ emit' = Emitted(p, <<EvIOError>>, Item(0, None), "IOError")
    /\ UNCHANGED <<runner, config_vars, mute_vars, ghost_vars, state, stop_signaled, orch>>

\* AudioConsumer.run: the test of `while self.state.running`
ConsumerRun(p) ==
    /\ pairs[p].cons = "loop"
    /\ pairs' = [pairs EXCEPT
                    ![p].cons =
                        IF state[pairs[p].gen].running THEN "get" ELSE "done",
                    ![p].audio = Item(0, None)]
    /\ emit' = NoEmit
    /\ UNCHANGED <<runner, config_vars, mute_vars, ghost_vars, state, stop_signaled, orch>>

\* AudioConsumer.read: queue.get times out
ReadEmpty(p) ==
    /\ pairs[p].cons = "get"
    /\ pairs[p].queue = <<>>
    /\ pairs' = [pairs EXCEPT ![p].cons = "loop"]
    /\ emit' = NoEmit
    /\ UNCHANGED <<runner, config_vars, mute_vars, ghost_vars, state, stop_signaled, orch>>

\* a wake_up that does not ask the stand-up engine
wake_up_always(found_wake_word) == [sleeping |-> FALSE, events |-> <<EvAwoken>>]

\* AudioConsumer.wake_up: the new value of sleeping and the events emitted
wake_up(found_wake_word) ==
    IF found_wake_word
    THEN [sleeping |-> FALSE, events |-> <<EvAwoken>>]
    ELSE [sleeping |-> TRUE, events |-> <<>>]

\* the test with <= in place of <
TooShort_or_equal(audio) == ~ LessThan(MIN_AUDIO_SIZE, _audio_length(audio))

\* the test of process: is the clip too short for the STT engine
TooShort(audio) == LessThan(_audio_length(audio), MIN_AUDIO_SIZE)

\* a process that emits no wakeword event
process_silent(word, audio) ==
    [events |-> <<>>, transcribe |-> ~ TooShort(audio)]

\* AudioConsumer.process up to the call of transcribe: the events emitted
\* and whether transcribe is called
process(word, audio) ==
    [events |-> <<EvWakeword(word)>>, transcribe |-> ~ TooShort(audio)]

\* AudioConsumer.read: queue.get returns an item; found_wake_word is what
\* the stand-up engine answers when asked
Read(p, found_wake_word) ==
    /\ pairs[p].cons = "get"
    /\ pairs[p].queue # <<>>
    /\ LET got == get(pairs[p].queue)
           audio == got.item
           g == pairs[p].gen
           took == [pairs EXCEPT ![p].queue = got.queue,
                                 ![p].taken = Append(@, audio.id),
                                 ![p].audio = audio]
       IN  IF audio.frames = None.frames
           THEN /\ pairs' = [took EXCEPT ![p].cons = "loop"]
                /\ emit' = Emitted(p, <<>>, audio, "none")
                /\ UNCHANGED state
           ELSE IF state[g].sleeping
           THEN LET w == wake_up(found_wake_word)
                IN  /\ pairs' = [took EXCEPT ![p].cons = "loop"]
                    /\ emit' = Emitted(p, w.events, audio,
                                       IF found_wake_word THEN "found" ELSE "asleep")
                    /\ state' = [state EXCEPT ![g].sleeping = w.sleeping]
           ELSE LET pr == process(pairs[p].word, audio)
                IN  /\ pairs' = [took EXCEPT
                                    ![p].cons =
                                        IF pr.transcribe THEN "stt" ELSE "loop"]
                    /\ emit' = Emitted(p, pr.events, audio,
                                       IF pr.transcribe THEN "stt" ELSE "short")
                    /\ UNCHANGED state
    /\ UNCHANGED <<runner, config_vars, mute_vars, ghost_vars, stop_signaled, orch>>

\* the rest of process: transcribe returns and the utterance is emitted
after_transcribe(outcome) ==
    LET t == transcribe(outcome)
    IN  t.events \o (IF Truthy(t.ret)
                     THEN <<EvUtterance(t.ret.text, STTLang)>>
                     ELSE <<>>)

\* stt.execute, called by transcribe, comes back with `outcome`
Transcribe(p, outcome) ==
    /\ pairs[p].cons = "stt"
    /\ pairs' = [pairs EXCEPT ![p].cons = "loop"]
    /\ emit' = Emitted(p, after_transcribe(outcome), pairs[p].audio, outcome.kind)
    /\ UNCHANGED <<runner, config_vars, mute_vars, ghost_vars, state, stop_signaled, orch>>

\* a _set_word that takes the engine's key phrase whatever the event says
_set_word_key_phrase(pair, has_word, word) ==
    [pair EXCEPT !.word = pair.key_phrase,
                 !.hw = TRUE,
                 !.heard = IF has_word
                           THEN [has_word |-> TRUE, word |-> word]
                           ELSE NoHotword]

\* AudioConsumer._set_word, run for every consumer registered on the emitter
\* when a recognizer_loop:hotword event is emitted; has_word tells whether
\* the event has a "hotword" field
_set_word(pair, has_word, word) ==
    [pair EXCEPT !.word = IF has_word THEN word ELSE pair.key_phrase,
                 !.hw = TRUE,
                 !.heard = IF has_word
                           THEN [has_word |-> TRUE, word |-> word]
                           ELSE NoHotword]

Hotword(has_word, word) ==
    /\ pairs # <<>>
    /\ pairs' = [p \in Pairs |-> _set_word(pairs[p], has_word, word)]
    /\ emit' = NoEmit
    /\ UNCHANGED <<runner, config_vars, mute_vars, ghost_vars, state, stop_signaled, orch>>

(* --------------------------- the orchestrator ------------------------- *)
\* RecognizerLoop.start_async, as long as fewer than max pairs were started
StartAsync(max) ==
    /\ orch = "idle"
    /\ Len(pairs) < max
    /\ state' = [state EXCEPT ![cur].running = TRUE]
    /\ pairs' = Append(pairs, NewPair(cur, wakeword_recognizer,
                                      state[cur].running))
    /\ stopped' = FALSE
    /\ emit' = NoEmit
    /\ UNCHANGED <<runner, config_vars, mute_vars, stop_signaled, orch>>

\* a stop() that clears running and leaves the recognizer alone
StopSignal_flag_only(next) ==
    /\ orch = "idle"
    /\ pairs # <<>>
    /\ state' = [state EXCEPT ![cur].running = FALSE]
    /\ orch' = next
    /\ emit' = NoEmit
    /\ UNCHANGED <<runner, config_vars, mute_vars, ghost_vars, pairs, stop_signaled>>

\* RecognizerLoop.stop up to the joins, AudioProducer.stop included.  On a
\* loop that was never started stop() raises AttributeError at self.producer
\* with nothing changed, which the model leaves out
StopSignal(next) ==
    /\ orch = "idle"
    /\ pairs # <<>>
    /\ state' = [state EXCEPT ![cur].running = FALSE]
    /\ stop_signaled' = [stop_signaled EXCEPT ![cur] = TRUE]
    /\ orch' = next
    /\ emit' = NoEmit
    /\ UNCHANGED <<runner, config_vars, mute_vars, ghost_vars, pairs>>

\* stop() without consumer.join()
Joined_producer_only == pairs[Len(pairs)].prod = "done"

\* stop() without producer.join()
Joined_consumer_only == pairs[Len(pairs)].cons = "done"

\* producer.join() and consumer.join() of the pair the loop refers to
Joined == pairs[Len(pairs)].prod = "done" /\ pairs[Len(pairs)].cons = "done"

start_async == StartAsync(MaxStarts)

stop == StopSignal("stop")

\* stop() returns
stop_return ==
    /\ orch = "stop"
    /\ Joined
    /\ orch' = "idle"
    /\ stopped' = TRUE
    /\ emit' = NoEmit
    /\ UNCHANGED <<runner, config_vars, mute_vars, state, stop_signaled, pairs>>

\* RecognizerLoop.reload: its call of stop()
Reload(max) ==
    /\ Len(pairs) < max
    /\ StopSignal("reload")

reload == Reload(MaxStarts)

\* RecognizerLoop.reload once stop() has returned: _load_config() and
\* start_async()
reload_return ==
    /\ orch = "reload"
    /\ Joined
    /\ LET loaded == _load_config(conf, mute_calls)
       IN  /\ conf' = loaded.config
           /\ wakeword_recognizer' = loaded.wakeword_recognizer
           /\ wakeup_recognizer' = loaded.wakeup_recognizer
           /\ hot_word_engines' = loaded.hot_word_engines
           /\ muted' = loaded.muted
           /\ state' = Append(state, [RecognizerLoopState EXCEPT !.running = TRUE])
           /\ stop_signaled' = Append(stop_signaled, FALSE)
           /\ pairs' = Append(pairs, NewPair(cur + 1, loaded.wakeword_recognizer,
                                             FALSE))
    /\ orch' = "idle"
    /\ stopped' = FALSE
    /\ emit' = NoEmit
    /\ UNCHANGED <<mute_calls, counted, callers, runner>>

\* RecognizerLoop.run: start_async(), after which the calling thread idles
\* in `while self.state.running`
run ==
    /\ runner = "none"
    /\ orch = "idle"
    /\ Len(pairs) < MaxStarts
    /\ state' = [state EXCEPT ![cur].running = TRUE]
    /\ pairs' = Append(pairs, NewPair(cur, wakeword_recognizer,
                                      state[cur].running))
    /\ stopped' = FALSE
    /\ emit' = NoEmit
    /\ runner' = "idling"
    /\ UNCHANGED <<config_vars, mute_vars, stop_signaled, orch>>

\* RecognizerLoop.run: the test of `while self.state.running`, made once a
\* second on whatever self.state is at that moment, fails and run() returns
run_return ==
    /\ runner = "idling"
    /\ ~ state[cur].running
    /\ runner' = "returned"
    /\ emit' = NoEmit
    /\ UNCHANGED <<config_vars, mute_vars, ghost_vars, state, stop_signaled,
                   pairs, orch>>

\* RecognizerLoop.run: KeyboardInterrupt in time.sleep, and the call of
\* stop() up to the joins; taken while no other stop() or reload() is under
\* way
run_interrupt ==
    /\ runner = "idling"
    /\ orch = "idle"
    /\ state' = [state EXCEPT ![cur].running = FALSE]
    /\ stop_signaled' = [stop_signaled EXCEPT ![cur] = TRUE]
    /\ orch' = "interrupt"
    /\ runner' = "stopping"
    /\ emit' = NoEmit
    /\ UNCHANGED <<config_vars, mute_vars, ghost_vars, pairs>>

\* RecognizerLoop.run: stop() returns and KeyboardInterrupt is raised again
run_raise ==
    /\ runner = "stopping"
    /\ orch = "interrupt"
    /\ Joined
    /\ orch' = "idle"
    /\ runner' = "raised"
    /\ stopped' = TRUE
    /\ emit' = NoEmit
    /\ UNCHANGED <<config_vars, mute_vars, state, stop_signaled, pairs>>

\* the application replaces the module-level configuration, which
\* reload() reads (config or conf, with config None)
SetConf(config) ==
    /\ orch = "idle"
    /\ config # conf
    /\ conf' = config
    /\ emit' = NoEmit
    /\ UNCHANGED <<runner, wakeword_recognizer, wakeup_recognizer, hot_word_engines,
                   mute_vars, ghost_vars, state, stop_signaled, pairs, orch>>

\* RecognizerLoop.sleep
sleep ==
    /\ state' = [state EXCEPT ![cur].sleeping = TRUE]
    /\ emit' = NoEmit
    /\ UNCHANGED <<runner, config_vars, mute_vars, ghost_vars, stop_signaled, pairs, orch>>

\* RecognizerLoop.awaken
awaken ==
    /\ state' = [state EXCEPT ![cur].sleeping = FALSE]
    /\ emit' = NoEmit
    /\ UNCHANGED <<runner, config_vars, mute_vars, ghost_vars, stop_signaled, pairs, orch>>

(* -------------------------------- mute -------------------------------- *)
\* RecognizerLoop.mute on mute_calls = calls
mute_op(calls, mic) == [mute_calls |-> calls + 1, muted |-> TRUE]

\* an unmute that does not count down
unmute_no_decrement(calls, mic) ==
    IF calls <= 0
    THEN [mute_calls |-> 0, muted |-> FALSE]
    ELSE [mute_calls |-> calls, muted |-> mic]

\* RecognizerLoop.unmute
unmute_op(calls, mic) ==
    LET dec == IF calls > 0 THEN calls - 1 ELSE calls
    IN  IF dec <= 0
        THEN [mute_calls |-> 0, muted |-> FALSE]
        ELSE [mute_calls |-> dec, muted |-> mic]

\* RecognizerLoop.force_unmute
force_unmute_op(calls, mic) == unmute_op(0, mic)

\* the calls counted so far, after one more mute(): a call made at depth 0
\* starts the count again
AfterMute(c) ==
    IF c.mutes = c.unmutes
    THEN [mutes |-> 1, unmutes |-> 0]
    ELSE [c EXCEPT !.mutes = @ + 1]

\* after one more unmute(): one made at depth 0 matches no mute()
AfterUnmute(c) ==
    IF c.mutes = c.unmutes THEN NoCalls ELSE [c EXCEPT !.unmutes = @ + 1]

MuteStep(after, c) ==
    /\ orch = "idle"
    /\ mute_calls' = after.mute_calls
    /\ muted' = after.muted
    /\ counted' = c
    /\ emit' = NoEmit
    /\ UNCHANGED callers
    /\ UNCHANGED <<runner, config_vars, ghost_vars, state, stop_signaled, pairs, orch>>

mute ==
    /\ mute_calls < MaxMute
    /\ AfterMute(counted).mutes <= MaxMute
    /\ MuteStep(mute_op(mute_calls, muted), AfterMute(counted))

unmute == MuteStep(unmute_op(mute_calls, muted), AfterUnmute(counted))

force_unmute == MuteStep(force_unmute_op(mute_calls, muted), NoCalls)

(* ------------------- mute() and unmute(), step by step ---------------- *)
\* Neither method takes a lock, and `self.mute_calls += 1` reads the
\* attribute, adds, and writes it back: another thread can run between any
\* two of the steps below.  Each caller pairs its calls: mute(), then
\* unmute(), MaxCalls times at most.
Caller(t, pc, tmp, calls, mic) ==
    /\ callers' = [callers EXCEPT
                      ![t].pc = pc,
                      ![t].tmp = tmp,
                      ![t].made = IF pc = "mute_write" THEN @ + 1 ELSE @]
    /\ mute_calls' = calls
    /\ muted' = mic
    /\ emit' = NoEmit
    /\ UNCHANGED <<runner, config_vars, ghost_vars, state, stop_signaled, pairs, orch,
                   counted>>

\* mute(): the read of self.mute_calls in `self.mute_calls += 1`
MuteRead(t) ==
    /\ callers[t].pc = "idle"
    /\ callers[t].made < MaxCalls
    /\ Caller(t, "mute_write", mute_calls, mute_calls, muted)

\* mute(): the write of `self.mute_calls += 1`
MuteWrite(t) ==
    /\ callers[t].pc = "mute_write"
    /\ Caller(t, "mute_mic", 0, callers[t].tmp + 1, muted)

\* mute(): self.microphone.mute(), and the return
MuteMic(t) ==
    /\ callers[t].pc = "mute_mic"
    /\ Caller(t, "muting", 0, mute_calls, TRUE)

\* unmute(): the test `if self.mute_calls > 0`
UnmuteTest(t) ==
    /\ callers[t].pc = "muting"
    /\ Caller(t, IF mute_calls > 0 THEN "unmute_read" ELSE "unmute_test", 0,
              mute_calls, muted)

\* unmute(): the read of self.mute_calls in `self.mute_calls -= 1`
UnmuteRead(t) ==
    /\ callers[t].pc = "unmute_read"
    /\ Caller(t, "unmute_write", mute_calls, mute_calls, muted)

\* unmute(): the write of `self.mute_calls -= 1`
UnmuteWrite(t) ==
    /\ callers[t].pc = "unmute_write"
    /\ Caller(t, "unmute_test", 0, callers[t].tmp - 1, muted)

\* unmute(): the test `if self.mute_calls <= 0 and self.microphone`, and
\* the return when it fails
UnmuteTestZero(t) ==
    /\ callers[t].pc = "unmute_test"
    /\ Caller(t, IF mute_calls <= 0 THEN "unmute_mic" ELSE "idle", 0,
              mute_calls, muted)

\* unmute(): self.microphone.unmute()
UnmuteMic(t) ==
    /\ callers[t].pc = "unmute_mic"
    /\ Caller(t, "unmute_zero", 0, mute_calls, FALSE)

\* unmute(): self.mute_calls = 0, and the return
UnmuteZero(t) ==
    /\ callers[t].pc = "unmute_zero"
    /\ Caller(t, "idle", 0, 0, muted)

(* ------------------------------ the system ---------------------------- *)
\* the producer threads, capturing the given clips
Producers(clips) ==
    \/ \E p \in Pairs : ProducerRun(p)
    \/ \E p \in Pairs, audio \in clips : ProducerListen(p, audio)
    \/ \E p \in Pairs : ProducerListenStopped(p)
    \/ \E p \in Pairs : ProducerIOError(p)

\* the consumer threads up to the call of the STT engine
Consumers ==
    \/ \E p \in Pairs : ConsumerRun(p)
    \/ \E p \in Pairs : ReadEmpty(p)
    \/ \E p \in Pairs, found_wake_word \in BOOLEAN : Read(p, found_wake_word)

\* the threads of the pairs
Threads(clips, outcomes) ==
    \/ Producers(clips)
    \/ Consumers
    \/ \E p \in Pairs, outcome \in outcomes : Transcribe(p, outcome)

\* the recognition pipeline: every clip and every answer of the STT engine
Next ==
    \/ Threads(AudioClips, STTOutcomes)
    \/ StartAsync(MaxPairs)
    \/ stop
    \/ stop_return
    \/ sleep
    \/ awaken

Spec == Init /\ [][Next]_vars

\* what producer p does without waiting for sound: its loop test, and the
\* return of a listen() that was told to stop
ProducerLeaves(p) ==
    /\ p \in Pairs
    /\ ProducerRun(p) \/ ProducerListenStopped(p)

\* what consumer p does: its loop test, queue.get with its timeout, and the
\* return of the STT engine
ConsumerSteps(p) ==
    /\ p \in Pairs
    /\ \/ ConsumerRun(p)
       \/ ReadEmpty(p)
       \/ \E found_wake_word \in BOOLEAN : Read(p, found_wake_word)
       \/ \E outcome \in STTOutcomes : Transcribe(p, outcome)

\* every thread gets to run, a listen() told to stop returns, every STT call
\* returns, and a join returns once the thread has ended
Fairness ==
    /\ \A p \in 1..MaxPairs :
          WF_vars(ProducerLeaves(p)) /\ WF_vars(ConsumerSteps(p))
    /\ WF_vars(stop_return)

\* the recognition pipeline under fair scheduling
SpecFair == Init /\ [][Next]_vars /\ Fairness

\* the one answer of the STT engine in the lifecycle specification
OneOutcome == {[kind |-> "ok", text |-> <<"H", "i">>]}

\* clips long enough for the STT engine
LongClips == {audio \in AudioClips : ~ TooShort(audio)}

\* the lifecycle of the loop: start_async, stop and reload in any order;
\* the capture raises no fault and every clip goes to the STT engine
NextLifecycle ==
    \/ \E p \in Pairs : ProducerRun(p)
    \/ \E p \in Pairs, audio \in LongClips : ProducerListen(p, audio)
    \/ \E p \in Pairs : ProducerListenStopped(p)
    \/ Consumers
    \/ \E p \in Pairs, outcome \in OneOutcome : Transcribe(p, outcome)
    \/ start_async
    \/ stop
    \/ stop_return
    \/ reload
    \/ reload_return

SpecLifecycle == Init /\ [][NextLifecycle]_vars

\* mute counting, across reloads; the threads capture nothing
NextMute ==
    \/ mute
    \/ unmute
    \/ force_unmute
    \/ start_async
    \/ reload
    \/ reload_return
    \/ \E p \in Pairs : ProducerRun(p)
    \/ \E p \in Pairs : ProducerIOError(p)
    \/ \E p \in Pairs : ConsumerRun(p)
    \/ \E p \in Pairs : ReadEmpty(p)

SpecMute == Init /\ [][NextMute]_vars

\* mute() and unmute() called by several threads at once
NextCallers ==
    \/ \E t \in Callers : MuteRead(t)
    \/ \E t \in Callers : MuteWrite(t)
    \/ \E t \in Callers : MuteMic(t)
    \/ \E t \in Callers : UnmuteTest(t)
    \/ \E t \in Callers : UnmuteRead(t)
    \/ \E t \in Callers : UnmuteWrite(t)
    \/ \E t \in Callers : UnmuteTestZero(t)
    \/ \E t \in Callers : UnmuteMic(t)
    \/ \E t \in Callers : UnmuteZero(t)

SpecCallers == Init /\ [][NextCallers]_vars

\* a thread in run() while another thread calls stop() and reload(); the
\* producers capture nothing
NextRun ==
    \/ run
    \/ run_return
    \/ run_interrupt
    \/ run_raise
    \/ stop
    \/ stop_return
    \/ reload
    \/ reload_return
    \/ \E p \in Pairs : ProducerRun(p)
    \/ \E p \in Pairs : ProducerListenStopped(p)
    \/ \E p \in Pairs : ProducerIOError(p)
    \/ \E p \in Pairs : ConsumerRun(p)
    \/ \E p \in Pairs : ReadEmpty(p)
    \/ \E p \in Pairs : Read(p, FALSE)

SpecRun == Init /\ [][NextRun]_vars

\* clips too short for the STT engine
ShortClips == {audio \in AudioClips : TooShort(audio)}

\* reloads of a changing configuration, and hotword events; the clips are
\* short, so that each gets its wakeword event and nothing more
NextConfig ==
    \/ \E p \in Pairs : ProducerRun(p)
    \/ \E p \in Pairs, audio \in ShortClips : ProducerListen(p, audio)
    \/ \E p \in Pairs : ProducerListenStopped(p)
    \/ Consumers
    \/ start_async
    \/ reload
    \/ reload_return
    \/ \E config \in Configs : SetConf(config)
    \/ \E word \in HotWords : Hotword(TRUE, word)
    \/ Hotword(FALSE, "")

SpecConfig == InitConfig /\ [][NextConfig]_vars

(* ------------------------------ properties ---------------------------- *)
HasEvent(events, name) == \E i \in 1..Len(events) : events[i].name = name

STTFailures == {"RequestError", "ConnectionError", "HTTPError401", "HTTPError",
                "RequestException", "Exception"}

\* the clip lasts 0.5 seconds or more
AtLeastHalfSecond(audio) == 2 * audio.frames >= audio.sample_rate * audio.sample_width

NoDuplicatePair == \A q \in Pairs : ~ pairs[q].dup

Terminated(p) == pairs[p].prod = "done" /\ pairs[p].cons = "done"

InFlight == {p \in Pairs : pairs[p].cons = "stt"}

\* C1: each consumer takes the clips of its queue in the order the producer
\* put them (the n-th put carries id n), whatever the STT engine did with
\* the clips before
C1_FifoOrder ==
    \A p \in Pairs :
        /\ pairs[p].taken = [i \in 1..Len(pairs[p].taken) |-> i]
        /\ Len(pairs[p].taken) <= pairs[p].pushed

\* C1 witness: a second clip has been taken and the STT engine failed on it
C1_Witness ==
    \E p \in Pairs :
        /\ emit.by = p
        /\ emit.res \in STTFailures
        /\ emit.audio.id = 2
        /\ Len(pairs[p].taken) = 2

\* C2 as claimed: no utterance event is emitted at a moment when the
\* sleeping flag of the consumer's state is true
C2_NoUtteranceWhileSleeping ==
    \A p \in Pairs :
        (emit.by = p /\ HasEvent(emit.events, "recognizer_loop:utterance"))
            => ~ state[pairs[p].gen].sleeping

\* C3: a clip of less than 0.5 seconds processed awake gets the wakeword
\* event only and is never handed to the STT engine; a clip of 0.5 seconds
\* or more processed awake is handed to it
C3_ShortClipNeverReachesSTT ==
    /\ \A p \in Pairs : pairs[p].cons = "stt" => AtLeastHalfSecond(pairs[p].audio)
    /\ emit.res = "short" =>
          /\ ~ AtLeastHalfSecond(emit.audio)
          /\ emit.events = <<EvWakeword(pairs[emit.by].word)>>
          /\ pairs[emit.by].cons = "loop"
    /\ emit.res = "stt" =>
          /\ AtLeastHalfSecond(emit.audio)
          /\ emit.events = <<EvWakeword(pairs[emit.by].word)>>
          /\ pairs[emit.by].cons = "stt"
          /\ pairs[emit.by].audio = emit.audio
    /\ (emit.res \in STTFailures \cup {"ok"}
        \/ HasEvent(emit.events, "recognizer_loop:utterance"))
          => AtLeastHalfSecond(emit.audio)

\* C3 witness: a clip just under 0.5 seconds has been processed awake
C3_Witness == emit.res = "short" /\ emit.audio.frames = 15999

\* C4: after mute() N times and unmute() M <= N times from depth 0,
\* mute_calls is N - M and the microphone is muted exactly when N > M;
\* force_unmute() leaves depth 0 and the microphone unmuted
C4_NestedMute ==
    /\ mute_calls = counted.mutes - counted.unmutes
    /\ muted = (counted.mutes > counted.unmutes)

\* C4 witness: two mute() calls followed by two unmute() calls
C4_Witness ==
    /\ counted = [mutes |-> 2, unmutes |-> 2]
    /\ mute_calls = 0
    /\ ~ muted

\* C5 as claimed: once stop() has returned, no producer or consumer of the
\* loop is running and nothing is emitted until the next start_async()
C5_StopEndsAllActivity ==
    stopped => /\ \A p \in Pairs : Terminated(p)
               /\ emit.by = 0

\* C5 amended: once stop() has returned, the pair the loop refers to has
\* terminated and emits nothing; when no start_async() was made on a running
\* loop, no pair at all is running and nothing is emitted
C5_StopEndsCurrentPair ==
    stopped => /\ Terminated(Len(pairs))
               /\ emit.by # Len(pairs)
               /\ NoDuplicatePair => /\ \A p \in Pairs : Terminated(p)
                                     /\ emit.by = 0

\* C5 witness: stop() has returned after a second pair was started and had
\* taken a clip
C5_Witness ==
    /\ stopped
    /\ NoDuplicatePair
    /\ Len(pairs) = 2
    /\ pairs[2].taken # <<>>

\* C6: on HTTP 401 the consumer emits one utterance event carrying
\* "pair my device" and the STT language, and nothing else
C6_PairMyDevice ==
    emit.res = "HTTPError401" =>
        /\ emit.events = <<EvUtterance(PairMyDevice, STTLang)>>
        /\ AtLeastHalfSecond(emit.audio)

\* C6 witness: the STT engine has answered a clip with HTTP 401
C6_Witness == emit.res = "HTTPError401" /\ emit.by \in Pairs

\* C7: on a connection fault the consumer emits no_internet and then the
\* speak event, no utterance, and is back at the head of its loop
C7_ConnectionFault ==
    emit.res = "ConnectionError" =>
        /\ emit.events =
              <<Ev("recognizer_loop:no_internet", <<>>),
                Ev("speak", [utterance |-> "not connected to the internet"])>>
        /\ pairs[emit.by].cons = "loop"
        /\ AtLeastHalfSecond(emit.audio)

\* C7 witness: the STT engine has failed on a clip with a connection fault
C7_Witness == emit.res = "ConnectionError" /\ emit.by \in Pairs

\* C8: a consumer that takes a clip while sleeping is true either hears the
\* stand-up phrase, clears sleeping and emits awoken alone, or leaves
\* sleeping true and emits nothing; either way the STT engine is not called
C8_WakeUpWhileAsleep ==
    [][\A p \in Pairs :
          (/\ pairs'[p].taken # pairs[p].taken
           /\ Head(pairs[p].queue).frames # None.frames
           /\ state[pairs[p].gen].sleeping)
          => /\ pairs'[p].cons = "loop"
             /\ emit'.by = p
             /\ \/ /\ emit'.res = "found"
                   /\ emit'.events = <<EvAwoken>>
                   /\ ~ state'[pairs[p].gen].sleeping
                \/ /\ emit'.res = "asleep"
                   /\ emit'.events = <<>>
                   /\ state'[pairs[p].gen].sleeping]_vars

\* C8 witness: a sleeping loop has heard the stand-up phrase
C8_Witness ==
    /\ emit.res = "found"
    /\ emit.events = <<EvAwoken>>
    /\ ~ state[pairs[emit.by].gen].sleeping

\* C9 as claimed: once a reload() has returned, every wakeword event
\* carries the wake phrase of the configuration that was loaded
C9_WakewordCarriesLoadedPhrase ==
    cur > 1 =>
        \A i \in 1..Len(emit.events) :
            emit.events[i].name = "recognizer_loop:wakeword"
                => emit.events[i] = EvWakeword(wakeword_recognizer.key_phrase)

\* C9 amended: reload() builds the wake-word engine, the stand-up engine and
\* the hot-word registry from the configuration it loads, and the wakeword
\* events of the pair it starts carry the loaded wake phrase for as long as
\* no hotword event has reached that pair's consumer
C9_ReloadRebuilds ==
    /\ [](\A p \in Pairs :
            (/\ emit.by = p
             /\ pairs[p].gen = cur
             /\ ~ pairs[p].hw
             /\ HasEvent(emit.events, "recognizer_loop:wakeword"))
            => emit.events = <<EvWakeword(wakeword_recognizer.key_phrase)>>)
    /\ [][(orch = "reload" /\ orch' = "idle")
            => /\ wakeword_recognizer'.key_phrase = conf.wake_word
               /\ wakeup_recognizer'.key_phrase = conf.stand_up_word
               /\ hot_word_engines' =
                     {w \in DOMAIN conf.hotwords :
                         /\ conf.hotwords[w]
                         /\ w \notin {conf.wake_word, conf.stand_up_word}}
               /\ pairs'[Len(pairs')].word = conf.wake_word
               /\ pairs'[Len(pairs')].gen = Len(state')]_vars

\* C9 witness: after a reload that changed the wake phrase, the new pair
\* emits a wakeword event
C9_Witness ==
    /\ cur > 1
    /\ emit.by = Len(pairs)
    /\ pairs[Len(pairs)].gen = cur
    /\ ~ pairs[Len(pairs)].hw
    /\ HasEvent(emit.events, "recognizer_loop:wakeword")
    /\ pairs[1].key_phrase # wakeword_recognizer.key_phrase

\* C10 as claimed: never two STT calls at once
C10_OneClipInFlight == Cardinality(InFlight) <= 1

\* C10 amended: never two STT calls at once as long as no start_async() was
\* made on a running loop
C10_OneClipInFlightPerStart == NoDuplicatePair => Cardinality(InFlight) <= 1

\* C10 witness: the pair started after a stop or reload has a clip in flight
C10_Witness ==
    /\ NoDuplicatePair
    /\ Len(pairs) = 2
    /\ InFlight = {2}

\* C11: a step in which the microphone capture or the STT engine raises a
\* fault ends no thread and leaves every state flag as it was: the producer
\* emits ioerror alone, puts nothing on the queue and is back at its loop
\* test; the consumer emits at least one event and is back at its loop
\* test.  A thread ends only at its loop test with running false, and
\* running is cleared only by stop(), called directly or by reload()
C11_FaultsDoNotTerminate ==
    [][/\ \A p \in Pairs :
            /\ (emit'.by = p /\ emit'.res = "IOError")
                 => /\ emit'.events = <<EvIOError>>
                    /\ pairs' = [pairs EXCEPT ![p].prod = "loop"]
                    /\ state' = state
            /\ (emit'.by = p /\ emit'.res \in STTFailures)
                 => /\ emit'.events # <<>>
                    /\ pairs' = [pairs EXCEPT ![p].cons = "loop"]
                    /\ state' = state
            /\ (pairs'[p].prod = "done" /\ pairs[p].prod # "done")
                 => pairs[p].prod = "loop" /\ ~ state[pairs[p].gen].running
            /\ (pairs'[p].cons = "done" /\ pairs[p].cons # "done")
                 => pairs[p].cons = "loop" /\ ~ state[pairs[p].gen].running
       /\ \A g \in 1..Len(state) :
            (state[g].running /\ ~ state'[g].running)
                 => orch = "idle" /\ orch' \in {"stop", "reload"}]_vars

\* C11 witness: the capture has raised an I/O fault after a clip was
\* queued, and both threads of the pair go on with running true
C11_Witness ==
    /\ emit.res = "IOError"
    /\ emit.by \in Pairs
    /\ pairs[emit.by].pushed = 1
    /\ pairs[emit.by].prod = "loop"
    /\ pairs[emit.by].cons \in {"loop", "get", "stt"}
    /\ state[pairs[emit.by].gen].running

\* the clips (None apart) that wait in the queue of pair p
Pending(p) ==
    {i \in 1..Len(pairs[p].queue) : pairs[p].queue[i].frames # None.frames}

\* C12 as claimed: no clip is taken from its queue twice, and no clip is
\* left in the queue of a pair whose consumer has ended
C12_EveryClipConsumedOnce ==
    \A p \in Pairs :
        /\ \A i, j \in 1..Len(pairs[p].taken) :
              pairs[p].taken[i] = pairs[p].taken[j] => i = j
        /\ pairs[p].cons = "done" => Pending(p) = {}

\* the places of `events` that hold an event called `name`
EventsNamed(events, name) == {i \in 1..Len(events) : events[i].name = name}

\* C13: the step in which a consumer takes a clip while awake emits the
\* wakeword event alone, and it is the only step that leads to the STT
\* engine; the step in which the STT engine answers emits, for the same
\* clip, no wakeword event and at most one utterance event, which comes
\* last and carries a non-empty text; a consumer takes no clip while the
\* STT engine works, and whatever a consumer emits belongs to the clip it
\* took last
C13_EventOrder ==
    /\ [](\A p \in Pairs :
            (emit.by = p /\ emit.audio.id > 0)
                => /\ pairs[p].taken # <<>>
                   /\ emit.audio.id = pairs[p].taken[Len(pairs[p].taken)]
                   /\ emit.audio.id = Len(pairs[p].taken))
    /\ [][\A p \in Pairs :
            /\ (/\ pairs'[p].taken # pairs[p].taken
                /\ Head(pairs[p].queue).frames # None.frames
                /\ ~ state[pairs[p].gen].sleeping)
                 => /\ emit'.by = p
                    /\ emit'.audio = Head(pairs[p].queue)
                    /\ emit'.events = <<EvWakeword(pairs[p].word)>>
            /\ pairs'[p].taken # pairs[p].taken => pairs[p].cons = "get"
            /\ (pairs'[p].cons = "stt" /\ pairs[p].cons # "stt")
                 => /\ pairs'[p].taken # pairs[p].taken
                    /\ emit'.by = p
                    /\ emit'.audio = pairs'[p].audio
                    /\ emit'.events = <<EvWakeword(pairs[p].word)>>
            /\ (pairs[p].cons = "stt" /\ pairs'[p].cons # "stt")
                 => /\ emit'.by = p
                    /\ emit'.audio = pairs[p].audio
                    /\ EventsNamed(emit'.events, "recognizer_loop:wakeword") = {}
                    /\ LET u == EventsNamed(emit'.events,
                                            "recognizer_loop:utterance")
                       IN  /\ Cardinality(u) <= 1
                           /\ \A i \in u :
                                 /\ i = Len(emit'.events)
                                 /\ emit'.events[i].payload.utterances[1] # <<>>]_vars

\* C13 witness: the STT engine has answered the second clip of a consumer
\* with a text, and the utterance event has followed
C13_Witness ==
    /\ emit.res = "ok"
    /\ emit.by \in Pairs
    /\ emit.audio.id = 2
    /\ HasEvent(emit.events, "recognizer_loop:utterance")

\* the wake phrase consumer p is to report: the word of the last hotword
\* event that reached it, or the key phrase of its wake-word engine when
\* that event had no "hotword" field or no event has reached it
ActiveWord(p) ==
    IF pairs[p].hw /\ pairs[p].heard.has_word
    THEN pairs[p].heard.word
    ELSE pairs[p].key_phrase

\* C14: every wakeword event of a consumer carries the word of the last
\* hotword event delivered to it, the key phrase of its wake-word engine
\* after a hotword event without a "hotword" field, and that key phrase
\* before any hotword event; the engine of a pair of the current
\* generation is the loop's primary wake-word engine
C14_HotwordOverride ==
    \A p \in Pairs :
        /\ pairs[p].word = ActiveWord(p)
        /\ pairs[p].gen = cur
              => pairs[p].key_phrase = wakeword_recognizer.key_phrase
        /\ (emit.by = p /\ HasEvent(emit.events, "recognizer_loop:wakeword"))
              => emit.events = <<EvWakeword(ActiveWord(p))>>

\* C14 witness: a consumer that a hotword event has reached emits a
\* wakeword event with the word of that event
C14_Witness ==
    \E p \in Pairs :
        /\ emit.by = p
        /\ pairs[p].heard \in [has_word : {TRUE}, word : HotWords]
        /\ emit.events = <<EvWakeword(pairs[p].heard.word)>>
        /\ pairs[p].heard.word # pairs[p].key_phrase

\* C15 as claimed: when the STT engine raises RequestError the consumer
\* emits nothing
C15_RequestErrorLogOnly == emit.res = "RequestError" => emit.events = <<>>

\* C15 amended: when the STT engine raises RequestError the consumer emits
\* the speak event "not connected to the internet" and nothing else (no
\* utterance, no no_internet, no speech.recognition.unknown), and is back
\* at its loop test
C15_RequestErrorSpeaks ==
    emit.res = "RequestError" =>
        /\ emit.events =
              <<Ev("speak", [utterance |-> "not connected to the internet"])>>
        /\ pairs[emit.by].cons = "loop"
        /\ pairs[emit.by].audio = emit.audio

\* C15 witness: the STT engine has raised RequestError on a clip
C15_Witness ==
    /\ emit.res = "RequestError"
    /\ emit.by \in Pairs
    /\ emit.audio.id > 0

\* C16 as claimed: while a caller has returned from mute() and not yet
\* called unmute(), the microphone is muted and the depth is positive; once
\* every caller has returned from the unmute() that matches its mute(), the
\* depth is 0 and the microphone is unmuted
C16_AtomicMuteCounting ==
    /\ (\E t \in Callers : callers[t].pc = "muting")
          => muted /\ mute_calls > 0
    /\ (\A t \in Callers : callers[t].pc = "idle")
          => mute_calls = 0 /\ ~ muted

\* C17: under fair scheduling a stop() that has cleared running and told
\* the recognizer to stop returns, with both threads of the pair ended,
\* whatever the queue holds and whether the loop sleeps or not; and a
\* consumer that comes to its loop test while running is false ends there
C17_StopReturns ==
    /\ (orch = "stop") ~> (stopped /\ Terminated(Len(pairs)))
    /\ [][\A p \in Pairs :
            (/\ ~ state[pairs[p].gen].running
             /\ ~ state'[pairs[p].gen].running
             /\ pairs[p].cons = "loop"
             /\ pairs'[p].cons # "loop")
            => pairs'[p].cons = "done"]_vars

\* C17 witness: stop() has returned on a sleeping loop with a clip still
\* in the queue
C17_Witness ==
    /\ stopped
    /\ orch = "idle"
    /\ Pending(Len(pairs)) # {}
    /\ state[cur].sleeping

\* pair p was the pair the loop referred to when start_async() was called
\* on a running loop
Orphaned(p) == p < Len(pairs) /\ pairs[p + 1].dup

\* C18 as claimed: stop() signals the newest pair only, so the threads of a
\* pair that start_async() has replaced on a running loop never end
C18_StopSignalsNewestOnly ==
    \A p \in Pairs :
        Orphaned(p) => pairs[p].prod # "done" /\ pairs[p].cons # "done"

\* C18 amended: start_async() goes ahead whatever running is; it adds one
\* pair with a new empty queue on the state and recognizer of the current
\* generation and leaves the earlier pairs as they are.  stop() clears
\* running on the state, and stops the recognizer, that every pair of the
\* current generation shares, and waits for the newest pair only
C18_DuplicatePair ==
    /\ [][(orch = "idle" /\ orch' = "idle" /\ Len(pairs') = Len(pairs) + 1)
            => /\ state' = [state EXCEPT ![cur].running = TRUE]
               /\ stop_signaled' = stop_signaled
               /\ muted' = muted
               /\ pairs'[Len(pairs')].queue = <<>>
               /\ pairs'[Len(pairs')].gen = cur
               /\ pairs'[Len(pairs')].dup = state[cur].running
               /\ \A p \in Pairs : pairs'[p] = pairs[p]]_vars
    /\ [][(orch = "idle" /\ orch' \in {"stop", "reload"})
            => /\ pairs' = pairs
               /\ \A p \in Pairs :
                     pairs[p].gen = cur
                         => /\ ~ state'[pairs[p].gen].running
                            /\ stop_signaled'[pairs[p].gen]]_vars
    /\ [][(orch = "stop" /\ orch' = "idle")
            => Terminated(Len(pairs)) /\ pairs' = pairs]_vars

\* C18 witness: start_async() on a running loop has made a second pair,
\* and stop() has returned while the first pair had not ended
C18_Witness ==
    /\ Len(pairs) = 2
    /\ Orphaned(1)
    /\ pairs[1].gen = pairs[2].gen
    /\ stopped
    /\ ~ Terminated(1)
    /\ Terminated(2)

\* C19: whatever calls of mute(), unmute(), force_unmute() and reload() are
\* made one after the other, mute_calls is never negative and the loop's
\* microphone is muted exactly when mute_calls is positive; reload() keeps
\* mute_calls and gives the loop a microphone that is muted exactly when
\* mute_calls is positive
C19_MuteInvariant ==
    /\ [](mute_calls >= 0 /\ (muted <=> mute_calls > 0))
    /\ [][(orch = "reload" /\ orch' = "idle")
            => /\ mute_calls' = mute_calls
               /\ muted' = (mute_calls > 0)
               /\ Len(state') = Len(state) + 1]_vars

\* C19 witness: a reload() made at depth 1 has returned, and the new
\* microphone is muted
C19_Witness ==
    /\ cur = 2
    /\ orch = "idle"
    /\ pairs[Len(pairs)].gen = 2
    /\ pairs[Len(pairs)].prod = "loop"
    /\ pairs[Len(pairs)].cons = "loop"
    /\ mute_calls = 1
    /\ counted = [mutes |-> 1, unmutes |-> 0]
    /\ muted

\* C20 as claimed: run() does not return while reload() is under way, and
\* once run() has returned, with no stop() or reload() under way, no
\* producer or consumer of the loop is running
C20_RunIdlesAcrossReload ==
    /\ [][(runner = "idling" /\ runner' = "returned") => orch # "reload"]_vars
    /\ []((runner = "returned" /\ orch = "idle")
            => \A p \in Pairs : Terminated(p))

=============================================================================
